---- MODULE Spec2Model ----
(***************************************************************************)
(* Model of plugins/modules/slack.py (community.general.slack).            *)
(*                                                                         *)
(* Python values are tagged records so that values of different Python     *)
(* types can be compared (None, str, int, list, dict).  A str is a         *)
(* sequence of one-character strings; a literal piece of a format          *)
(* template is kept as one element of the sequence.  A dict is a function  *)
(* from its keys to values.                                                *)
(*                                                                         *)
(* module.fail_json and module.exit_json end the process (SystemExit is    *)
(* not an Exception, so no `except Exception' clause catches it).          *)
(***************************************************************************)
EXTENDS Integers, Sequences, FiniteSets, TLC

VARIABLES pc, params, check_mode, file_state, requests, outcome, changed,
          message, cursor, pages, upload, args, ret

vars == <<pc, params, check_mode, file_state, requests, outcome, changed,
          message, cursor, pages, upload, args, ret>>

(***************************************************************************)
(* Bounds                                                                  *)
(***************************************************************************)
MaxTextLen == 2
MaxAttachments == 1
MaxBody == 3
MaxPages == 3

(***************************************************************************)
(* Python values                                                           *)
(***************************************************************************)
None == [t |-> "None"]
PyStr(s) == [t |-> "str", v |-> s]
PyInt(i) == [t |-> "int", v |-> i]
PyBool(b) == [t |-> "bool", v |-> b]
PyList(l) == [t |-> "list", v |-> l]
\* A dict keeps the order in which its keys were put in: v maps each key to
\* its value, k lists the keys in that order.  A key is one piece of text,
\* made of characters that json.dumps and repr write as they are.
PyDict(d, keys) == [t |-> "dict", v |-> d, k |-> keys]

EmptyDict == PyDict([x \in {} |-> None], <<>>)
\* d[key] = x on a dict: a new key goes last, a known key keeps its place.
SetItem(d, key, x) ==
    PyDict([y \in (DOMAIN d.v) \cup {key} |-> IF y = key THEN x ELSE d.v[y]],
           IF key \in DOMAIN d.v THEN d.k ELSE Append(d.k, key))
\* The same on a mapping whose order nothing reads.
DictSet(d, k, v) == [x \in (DOMAIN d) \cup {k} |-> IF x = k THEN v ELSE d[x]]
DictGet(d, k) == IF k \in DOMAIN d THEN d[k] ELSE None

\* Python truthiness of a value (used by `if not x', `if x').
Truthy(x) ==
    CASE x.t = "None" -> FALSE
      [] x.t = "str"  -> Len(x.v) > 0
      [] x.t = "int"  -> x.v # 0
      [] x.t = "bool" -> x.v
      [] x.t = "list" -> Len(x.v) > 0
      [] x.t = "dict" -> DOMAIN x.v # {}

SeqsUpTo(S, n) == UNION {[1..k -> S] : k \in 0..n}

StartsWith(s, p) == Len(s) >= Len(p) /\ SubSeq(s, 1, Len(p)) = p

\* str.count(c) for a one-character c
RECURSIVE Count(_, _)
Count(s, c) ==
    IF s = <<>> THEN 0
    ELSE (IF Head(s) = c THEN 1 ELSE 0) + Count(Tail(s), c)

(***************************************************************************)
(* String literals of the module                                           *)
(***************************************************************************)
S_normal  == <<"n", "o", "r", "m", "a", "l">>
S_good    == <<"g", "o", "o", "d">>
S_warning == <<"w", "a", "r", "n", "i", "n", "g">>
S_danger  == <<"d", "a", "n", "g", "e", "r">>
S_text    == <<"t", "e", "x", "t">>
S_auto    == <<"a", "u", "t", "o">>
S_always  == <<"a", "l", "w", "a", "y", "s">>
S_never   == <<"n", "e", "v", "e", "r">>

(***************************************************************************)
(* escape_quotes                                                           *)
(***************************************************************************)
\* The Python literals "\"" and "\'" are the one-character strings " and '.
escape_table == ("\"" :> <<"\"">>) @@ ("'" :> <<"'">>)

RECURSIVE escape_quotes(_)
escape_quotes(text) ==
    IF text = <<>> THEN <<>>
    ELSE (IF Head(text) \in DOMAIN escape_table
             THEN escape_table[Head(text)]
             ELSE <<Head(text)>>) \o escape_quotes(Tail(text))

RECURSIVE recursive_escape_quotes(_, _)
recursive_escape_quotes(obj, keys) ==
    IF obj.t = "dict"
    THEN PyDict([k \in DOMAIN obj.v |->
                    IF obj.v[k].t = "str" /\ k \in keys
                    THEN PyStr(escape_quotes(obj.v[k].v))
                    ELSE recursive_escape_quotes(obj.v[k], keys)], obj.k)
    ELSE IF obj.t = "list"
    THEN PyList([i \in 1..Len(obj.v) |-> recursive_escape_quotes(obj.v[i], keys)])
    ELSE obj

(***************************************************************************)
(* build_payload_for_slack                                                 *)
(***************************************************************************)
Return(v) == [t |-> "return", v |-> v]
Raise(e) == [t |-> "raise", v |-> e]

attachment_keys_to_escape == {"title", "text", "author_name", "pretext", "fallback"}
block_keys_to_escape == {"text", "alt_text"}

\* Lines 401-403: escape the listed keys that the attachment has.
EscapeAttachment(attachment) ==
    PyDict([k \in DOMAIN attachment.v |->
               IF k \in attachment_keys_to_escape
               THEN PyStr(escape_quotes(attachment.v[k].v))
               ELSE attachment.v[k]], attachment.k)

\* Lines 400-408 for one attachment: a dict, or the KeyError of line 406.
ProcessAttachment(attachment) ==
    LET escaped == EscapeAttachment(attachment) IN
    IF "fallback" \notin DOMAIN escaped.v
    THEN IF "text" \in DOMAIN escaped.v
         THEN Return(SetItem(escaped, "fallback", escaped.v["text"]))
         ELSE Raise("KeyError")
    ELSE Return(escaped)

\* Lines 400-408: the loop, appending to the payload's attachment list;
\* the first KeyError ends the call.
RECURSIVE AppendAttachments(_, _)
AppendAttachments(list, attachments) ==
    IF attachments = <<>> THEN Return(list)
    ELSE LET r == ProcessAttachment(Head(attachments)) IN
         IF r.t = "raise" THEN r
         ELSE AppendAttachments(Append(list, r.v), Tail(attachments))

\* Lines 400-408 write into the dicts of the list they are given, which are
\* the caller's: what that list holds after the call (up to the KeyError of
\* line 406, if there is one).
RECURSIVE MutatedAttachments(_)
MutatedAttachments(attachments) ==
    IF attachments = <<>> THEN <<>>
    ELSE LET r == ProcessAttachment(Head(attachments)) IN
         IF r.t = "raise"
         THEN <<EscapeAttachment(Head(attachments))>> \o Tail(attachments)
         ELSE <<r.v>> \o MutatedAttachments(Tail(attachments))

AttachmentsAfterCall(attachments) ==
    IF attachments = None THEN None ELSE PyList(MutatedAttachments(attachments.v))

\* Variant: the text is always wrapped into an attachment.
PayloadText_always_attachment(text, color) ==
    IF text # None
    THEN SetItem(EmptyDict, "attachments",
                 PyList(<<PyDict([text |-> PyStr(escape_quotes(text.v)),
                                  color |-> color,
                                  mrkdwn_in |-> PyList(<<PyStr(S_text)>>)],
                                 <<"text", "color", "mrkdwn_in">>)>>))
    ELSE EmptyDict

\* Lines 357-362
PayloadText(text, color) ==
    IF color = PyStr(S_normal) /\ text # None
    THEN SetItem(EmptyDict, "text", PyStr(escape_quotes(text.v)))
    ELSE IF text # None
    THEN SetItem(EmptyDict, "attachments",
                 PyList(<<PyDict([text |-> PyStr(escape_quotes(text.v)),
                                  color |-> color,
                                  mrkdwn_in |-> PyList(<<PyStr(S_text)>>)],
                                 <<"text", "color", "mrkdwn_in">>)>>))
    ELSE EmptyDict

\* Variant: 'CP' is missing from the prefixes.
auto_prefixes_without_CP == {<<"#">>, <<"@">>, <<"C", "0">>, <<"G", "F">>, <<"G", "0">>}

\* Line 365
auto_prefixes == {<<"#">>, <<"@">>, <<"C", "0">>, <<"G", "F">>, <<"G", "0">>, <<"C", "P">>}

\* Lines 363-372
PayloadChannel(payload, channel, prepend_hash) ==
    IF channel # None
    THEN IF prepend_hash = PyStr(S_auto)
         THEN IF \E p \in auto_prefixes : StartsWith(channel.v, p)
              THEN SetItem(payload, "channel", channel)
              ELSE SetItem(payload, "channel", PyStr(<<"#">> \o channel.v))
         ELSE IF prepend_hash = PyStr(S_always)
         THEN SetItem(payload, "channel", PyStr(<<"#">> \o channel.v))
         ELSE IF prepend_hash = PyStr(S_never)
         THEN SetItem(payload, "channel", channel)
         ELSE payload
    ELSE payload

\* `if x is not None: payload[key] = x'
SetIfNotNone(payload, key, x) ==
    IF x # None THEN SetItem(payload, key, x) ELSE payload

\* Lines 377-380
PayloadIcon(payload, icon_url, icon_emoji) ==
    IF icon_emoji # None
    THEN SetItem(payload, "icon_emoji", icon_emoji)
    ELSE SetItem(payload, "icon_url", icon_url)

\* Lines 388-390
PayloadAttachmentsInit(payload, attachments) ==
    IF attachments # None /\ "attachments" \notin DOMAIN payload.v
    THEN SetItem(payload, "attachments", PyList(<<>>))
    ELSE payload

\* Lines 410-415
PayloadBlocks(payload, blocks) ==
    IF blocks # None
    THEN SetItem(payload, "blocks", recursive_escape_quotes(blocks, block_keys_to_escape))
    ELSE payload

build_payload_for_slack(text, channel, thread_id, username, icon_url, icon_emoji, link_names, parse, color, attachments, blocks, message_id, prepend_hash) ==
    LET p1 == PayloadText(text, color)
        p2 == PayloadChannel(p1, channel, prepend_hash)
        p3 == SetIfNotNone(p2, "thread_ts", thread_id)
        p4 == SetIfNotNone(p3, "username", username)
        p5 == PayloadIcon(p4, icon_url, icon_emoji)
        p6 == SetIfNotNone(p5, "link_names", link_names)
        p7 == SetIfNotNone(p6, "parse", parse)
        p8 == SetIfNotNone(p7, "ts", message_id)
        p9 == PayloadAttachmentsInit(p8, attachments)
    IN  IF attachments # None
        THEN LET r == AppendAttachments(p9.v["attachments"].v, attachments.v) IN
             IF r.t = "raise" THEN r
             ELSE Return(PayloadBlocks(SetItem(p9, "attachments", PyList(r.v)), blocks))
        ELSE Return(PayloadBlocks(p9, blocks))

(***************************************************************************)
(* Endpoint templates (lines 311-318) and % formatting                     *)
(***************************************************************************)
OLD_SLACK_INCOMING_WEBHOOK == <<"https://", "%s", "/services/hooks/incoming-webhook?token=", "%s">>
SLACK_INCOMING_WEBHOOK == <<"https://hooks.slack.com/services/", "%s">>
SLACK_POSTMESSAGE_WEBAPI == <<"https://slack.com/api/chat.postMessage">>
SLACK_UPDATEMESSAGE_WEBAPI == <<"https://slack.com/api/chat.update">>
SLACK_CONVERSATIONS_HISTORY_WEBAPI == <<"https://slack.com/api/conversations.history">>
SLACK_GET_UPLOAD_URL_EXTERNAL == <<"https://slack.com/api/files.getUploadURLExternal">>
SLACK_COMPLETE_UPLOAD_EXTERNAL == <<"https://slack.com/api/files.completeUploadExternal">>
SLACK_CONVERSATIONS_LIST_WEBAPI == <<"https://slack.com/api/conversations.list">>

\* template % fmtargs: each "%s" is replaced by the next argument.
RECURSIVE Format(_, _)
Format(template, fmtargs) ==
    IF template = <<>> THEN <<>>
    ELSE IF Head(template) = "%s"
    THEN Head(fmtargs) \o Format(Tail(template), Tail(fmtargs))
    ELSE <<Head(template)>> \o Format(Tail(template), fmtargs)

(***************************************************************************)
(* do_notify_slack                                                         *)
(***************************************************************************)
Fail(kw) == [t |-> "fail_json", v |-> kw]
Exit(kw) == [t |-> "exit_json", v |-> kw]

\* The characters Python's \s matches in a str pattern (str.isspace).  The
\* ones TLA+ has no escape for are written as Python writes them.
Whitespace ==
    {" ", "\t", "\n", "\r", "\f", "\\x0b", "\\x1c", "\\x1d", "\\x1e", "\\x1f", "\\x85",
     "\\xa0", "\\u1680", "\\u2000", "\\u2001", "\\u2002", "\\u2003", "\\u2004", "\\u2005",
     "\\u2006", "\\u2007", "\\u2008", "\\u2009", "\\u200a", "\\u2028", "\\u2029", "\\u202f",
     "\\u205f", "\\u3000"}

\* re.match(r'^xox[abp]-\S+$', token): `$' matches at the end of the string
\* and also just before a newline that ends the string.
MatchesWebApiToken(token) ==
    \E e \in {Len(token)} \cup
             (IF Len(token) >= 1 /\ token[Len(token)] = "\n" THEN {Len(token) - 1} ELSE {}) :
        /\ e >= 6
        /\ SubSeq(token, 1, 3) = <<"x", "o", "x">>
        /\ token[4] \in {"a", "b", "p"}
        /\ token[5] = "-"
        /\ \A i \in 6..e : token[i] \notin Whitespace

\* Variant: the WebAPI pattern is tested before the count of '/'.
ClassifyToken_webapi_first(domain, token) ==
    IF MatchesWebApiToken(token) THEN "webapi"
    ELSE IF Count(token, "/") >= 2 THEN "new"
    ELSE IF ~Truthy(domain) THEN "nodomain"
    ELSE "legacy"

\* Variant: only a missing domain is refused, an empty one is used.
ClassifyToken_domain_is_none(domain, token) ==
    IF Count(token, "/") >= 2 THEN "new"
    ELSE IF MatchesWebApiToken(token) THEN "webapi"
    ELSE IF domain = None THEN "nodomain"
    ELSE "legacy"

\* Lines 447-458: "new", "webapi", "legacy" or "nodomain" (the fail_json of line 456).
ClassifyToken(domain, token) ==
    IF Count(token, "/") >= 2 THEN "new"
    ELSE IF MatchesWebApiToken(token) THEN "webapi"
    ELSE IF ~Truthy(domain) THEN "nodomain"
    ELSE "legacy"

\* Variant: the WebAPI endpoint ignores the 'ts' field of the payload.
SlackUri_always_post(domain, token, payload) ==
    CASE Count(token, "/") >= 2 -> Format(SLACK_INCOMING_WEBHOOK, <<token>>)
      [] Count(token, "/") < 2 /\ MatchesWebApiToken(token) -> SLACK_POSTMESSAGE_WEBAPI
      [] OTHER -> Format(OLD_SLACK_INCOMING_WEBHOOK, <<domain.v, token>>)

\* Lines 448-458
SlackUri(domain, token, payload) ==
    CASE ClassifyToken(domain, token) = "new" -> Format(SLACK_INCOMING_WEBHOOK, <<token>>)
      [] ClassifyToken(domain, token) = "webapi" ->
            IF "ts" \in DOMAIN payload.v THEN SLACK_UPDATEMESSAGE_WEBAPI ELSE SLACK_POSTMESSAGE_WEBAPI
      [] ClassifyToken(domain, token) = "legacy" -> Format(OLD_SLACK_INCOMING_WEBHOOK, <<domain.v, token>>)

\* Lines 460-465
NotifyHeaders(domain, token) ==
    LET headers == ("Content-Type" :> <<"application/json; charset=UTF-8">>) @@
                   ("Accept" :> <<"application/json">>)
    IN  IF ClassifyToken(domain, token) = "webapi"
        THEN DictSet(headers, "Authorization", <<"Bearer ">> \o token)
        ELSE headers

(***************************************************************************)
(* Texts made from values: module.jsonify and '%s' % value.  A text of the *)
(* model is made of ASCII characters and of the characters that do not     *)
(* print, each written as Python writes it ("\\x0b", "\\u2028",            *)
(* "\\U000e0001").                                                         *)
(***************************************************************************)
\* The digits of the numbers Python writes in \xNN, \uNNNN and \UNNNNNNNN.
LowerHex == "0123456789abcdef"

\* The value of the hexadecimal digit c.
HexValue(c) == (CHOOSE i \in 1..Len(LowerHex) : SubSeq(LowerHex, i, i) = c) - 1

\* The number the hexadecimal digits s write.
RECURSIVE HexNumber(_)
HexNumber(s) ==
    IF Len(s) = 0 THEN 0
    ELSE 16 * HexNumber(SubSeq(s, 1, Len(s) - 1)) + HexValue(SubSeq(s, Len(s), Len(s)))

\* c is a character written as Python writes those that do not print:
\* \xNN, \uNNNN or \UNNNNNNNN.
IsWritten(c) ==
    \/ Len(c) = 4 /\ SubSeq(c, 1, 2) = "\\x"
    \/ Len(c) = 6 /\ SubSeq(c, 1, 2) = "\\u"
    \/ Len(c) = 10 /\ SubSeq(c, 1, 2) = "\\U"

\* ord(c) of such a character.
CodePoint(c) == HexNumber(SubSeq(c, 3, Len(c)))

\* The hexadecimal digit of the value d.
HexDigit(d) == SubSeq(LowerHex, d + 1, d + 1)

\* '\\u{0:04x}'.format(n)
JsonU(n) ==
    "\\u" \o HexDigit((n \div 4096) % 16) \o HexDigit((n \div 256) % 16)
          \o HexDigit((n \div 16) % 16) \o HexDigit(n % 16)

\* json.dumps (ensure_ascii) of the character of code point n that does not
\* print: the short escapes, \uNNNN up to U+FFFF, and above it the two
\* surrogates 0xd800 | ((n - 0x10000) >> 10) and 0xdc00 | ((n - 0x10000) & 0x3ff).
JsonCodePoint(n) ==
    CASE n = 8  -> <<"\\b">>
      [] n = 9  -> <<"\\", "t">>
      [] n = 10 -> <<"\\", "n">>
      [] n = 12 -> <<"\\", "f">>
      [] n = 13 -> <<"\\", "r">>
      [] n >= 65536 -> <<JsonU(55296 + ((n - 65536) \div 1024)),
                         JsonU(56320 + ((n - 65536) % 1024))>>
      [] OTHER -> <<JsonU(n)>>

\* json.dumps of a str: the characters between double quotes, with a
\* backslash before '"' and '\', and the characters that do not print
\* written out.
RECURSIVE JsonChars(_)
JsonChars(text) ==
    IF text = <<>> THEN <<>>
    ELSE (CASE Head(text) = "\"" -> <<"\\", "\"">>
            [] Head(text) = "\\" -> <<"\\", "\\">>
            [] Head(text) = "\n" -> <<"\\", "n">>
            [] Head(text) = "\t" -> <<"\\", "t">>
            [] Head(text) = "\r" -> <<"\\", "r">>
            [] Head(text) = "\f" -> <<"\\", "f">>
            [] IsWritten(Head(text)) -> JsonCodePoint(CodePoint(Head(text)))
            [] OTHER -> <<Head(text)>>) \o JsonChars(Tail(text))

RECURSIVE JsonValue(_)
RECURSIVE JsonItems(_)
RECURSIVE JsonMembers(_, _)
\* The elements of a list, separated by ', '.
JsonItems(l) ==
    IF l = <<>> THEN <<>>
    ELSE JsonValue(Head(l)) \o (IF Tail(l) = <<>> THEN <<>> ELSE <<", ">>) \o JsonItems(Tail(l))

\* The members of a dict for the keys listed, separated by ', '.
JsonMembers(d, keys) ==
    IF keys = <<>> THEN <<>>
    ELSE <<"\"", Head(keys), "\"", ": ">> \o JsonValue(d[Head(keys)])
         \o (IF Tail(keys) = <<>> THEN <<>> ELSE <<", ">>) \o JsonMembers(d, Tail(keys))

\* json.dumps(x): a dict is written in the order of its keys.
JsonValue(x) ==
    CASE x.t = "None" -> <<"null">>
      [] x.t = "bool" -> IF x.v THEN <<"true">> ELSE <<"false">>
      [] x.t = "int"  -> <<ToString(x.v)>>
      [] x.t = "str"  -> <<"\"">> \o JsonChars(x.v) \o <<"\"">>
      [] x.t = "list" -> <<"[">> \o JsonItems(x.v) \o <<"]">>
      [] x.t = "dict" -> <<"{">> \o JsonMembers(x.v, x.k) \o <<"}">>

\* module.jsonify(payload) (line 466), which is json.dumps of the payload.
jsonify(payload) == JsonValue(payload)

\* repr of a str: between single quotes, or between double quotes when it
\* holds a single quote and no double quote.  A character that does not
\* print is written \xNN or \uNNNN, which is how the model writes it; the
\* form feed is \x0c.
RECURSIVE ReprChars(_, _)
ReprChars(text, quote) ==
    IF text = <<>> THEN <<>>
    ELSE (CASE Head(text) = quote -> <<"\\", quote>>
            [] Head(text) = "\\" -> <<"\\", "\\">>
            [] Head(text) = "\n" -> <<"\\", "n">>
            [] Head(text) = "\t" -> <<"\\", "t">>
            [] Head(text) = "\r" -> <<"\\", "r">>
            [] Head(text) = "\f" -> <<"\\x0c">>
            [] OTHER -> <<Head(text)>>) \o ReprChars(Tail(text), quote)

ReprQuote(text) ==
    IF (\E i \in 1..Len(text) : text[i] = "'") /\ (\A i \in 1..Len(text) : text[i] # "\"")
    THEN "\"" ELSE "'"

RECURSIVE py_repr(_)
RECURSIVE ReprItems(_)
RECURSIVE ReprMembers(_, _)
ReprItems(l) ==
    IF l = <<>> THEN <<>>
    ELSE py_repr(Head(l)) \o (IF Tail(l) = <<>> THEN <<>> ELSE <<", ">>) \o ReprItems(Tail(l))

ReprMembers(d, keys) ==
    IF keys = <<>> THEN <<>>
    ELSE <<"'", Head(keys), "'", ": ">> \o py_repr(d[Head(keys)])
         \o (IF Tail(keys) = <<>> THEN <<>> ELSE <<", ">>) \o ReprMembers(d, Tail(keys))

\* repr(x), which '%s' % x gives for None, a bool, an int, a list and a dict.
py_repr(x) ==
    CASE x.t = "None" -> <<"None">>
      [] x.t = "bool" -> IF x.v THEN <<"True">> ELSE <<"False">>
      [] x.t = "int"  -> <<ToString(x.v)>>
      [] x.t = "str"  -> <<ReprQuote(x.v)>> \o ReprChars(x.v, ReprQuote(x.v)) \o <<ReprQuote(x.v)>>
      [] x.t = "list" -> <<"[">> \o ReprItems(x.v) \o <<"]">>
      [] x.t = "dict" -> <<"{">> \o ReprMembers(x.v, x.k) \o <<"}">>

\* '%s' % x: the text itself for a str, repr for the other values.
py_str(x) == IF x.t = "str" THEN x.v ELSE py_repr(x)

\* Python's ==: a bool equals the int of its value (True == 1, False == 0),
\* lists are compared element by element, dicts key by key whatever the
\* order of their keys.
RECURSIVE PyEq(_, _)
PyEq(a, b) ==
    CASE a.t \in {"bool", "int"} /\ b.t \in {"bool", "int"} ->
            (IF a.t = "bool" THEN (IF a.v THEN 1 ELSE 0) ELSE a.v)
                = (IF b.t = "bool" THEN (IF b.v THEN 1 ELSE 0) ELSE b.v)
      [] a.t = "list" /\ b.t = "list" ->
            /\ Len(a.v) = Len(b.v)
            /\ \A i \in 1..Len(a.v) : PyEq(a.v[i], b.v[i])
      [] a.t = "dict" /\ b.t = "dict" ->
            /\ DOMAIN a.v = DOMAIN b.v
            /\ \A k \in DOMAIN a.v : PyEq(a.v[k], b.v[k])
      [] OTHER -> a = b

\* A body is the value its JSON text stands for (an object, a list, a
\* string, a number, true, false or null), or NotJson: no bytes at all.
NotJson == [t |-> "notjson"]

\* Variant: a body that is not JSON is read as an empty object.
from_json_lenient(body) == IF body.t = "notjson" THEN Return(EmptyDict) ELSE Return(body)

\* module.from_json(response.read()): json.loads gives the value whatever
\* its type, and raises ValueError for what is not JSON.
from_json(body) == IF body.t = "notjson" THEN Raise("ValueError") ELSE Return(body)

\* Variant: the message names the URL that was requested.
NotifyFailure_unredacted(domain, token, payload, info) ==
    Fail([msg |-> Format(<<" failed to send ", "%s", " to ", "%s", ": ", "%s">>,
                         <<jsonify(payload), SlackUri(domain, token, payload), info.msg>>)])

\* Lines 470-475
NotifyFailure(domain, token, payload, info) ==
    LET obscured_incoming_webhook ==
            IF ClassifyToken(domain, token) = "webapi"
            THEN SlackUri(domain, token, payload)
            ELSE Format(SLACK_INCOMING_WEBHOOK, <<<<"[obscured]">>>>)
    IN  Fail([msg |-> Format(<<" failed to send ", "%s", " to ", "%s", ": ", "%s">>,
                             <<jsonify(payload), obscured_incoming_webhook, info.msg>>)])

\* Lines 446-481.  info and body are the answer fetch_url gets for the POST.
\* The value is the list of requests issued and how the call ends.
do_notify_slack(domain, token, payload, info, body) ==
    IF ClassifyToken(domain, token) = "nodomain"
    THEN [requests |-> <<>>,
          result |-> Fail([msg |-> <<"Slack has updated its webhook API.  You need to specify a token of the form XXXX/YYYY/ZZZZ in your playbook">>])]
    ELSE [requests |-> <<[method |-> "POST",
                          url |-> SlackUri(domain, token, payload),
                          headers |-> NotifyHeaders(domain, token),
                          data |-> jsonify(payload)]>>,
          result |-> IF info.status # 200
                     THEN NotifyFailure(domain, token, payload, info)
                     ELSE IF ClassifyToken(domain, token) = "webapi"
                     THEN from_json(body)
                     ELSE Return(PyDict([webhook |-> PyStr(<<"o", "k">>)], <<"webhook">>))]

(***************************************************************************)
(* The log of requests keeps, with each request, what fetch_url got back: *)
(* the status, whether the body is JSON, its 'ok' and its next cursor.     *)
(***************************************************************************)
AnswerOf(info, body) ==
    [status |-> info.status,
     json |-> body.t # "notjson",
     ok |-> IF body.t = "dict" THEN DictGet(body.v, "ok") ELSE None,
     next_cursor |-> IF /\ body.t = "dict"
                        /\ "response_metadata" \in DOMAIN body.v
                        /\ body.v["response_metadata"].t = "dict"
                     THEN DictGet(body.v["response_metadata"].v, "next_cursor")
                     ELSE None]

Answered(reqs, info, body) ==
    [i \in 1..Len(reqs) |->
        [method |-> reqs[i].method, url |-> reqs[i].url, headers |-> reqs[i].headers,
         data |-> reqs[i].data, answer |-> AnswerOf(info, body)]]

(***************************************************************************)
(* Inputs of the calls                                                     *)
(***************************************************************************)
Chars == {"'", "\"", "&"}
Texts == SeqsUpTo(Chars, MaxTextLen)
OptText == {None} \cup {PyStr(s) : s \in Texts}

S_hex == <<"#", "f", "f", "0", "0", "a", "a">>
Colors == {None, PyStr(S_normal), PyStr(S_good), PyStr(S_hex)}

\* Attachments: any subset of these keys, each with a value holding both quotes.
AttachmentKeys == {"title", "text", "fallback", "footer"}
AttachmentValue(k) == PyStr(<<"\"", k, "'">>)
\* The caller wrote the keys in one of these orders.
AttachmentKeyOrders ==
    {<<"title", "text", "fallback", "footer">>, <<"footer", "fallback", "text", "title">>}
AttachmentDicts ==
    {PyDict([k \in K |-> AttachmentValue(k)], SelectSeq(o, LAMBDA k : k \in K)) :
        K \in SUBSET AttachmentKeys, o \in AttachmentKeyOrders}
OptAttachments ==
    {None} \cup {PyList(l) : l \in SeqsUpTo(AttachmentDicts, MaxAttachments)}

S_ts == <<"1", ".", "0">>
S_default_icon == <<"https://docs.ansible.com/favicon.ico">>
S_emoji == <<":", "x", ":">>
S_url == <<"h", "t", "t", "p", ":", "/", "/", "i">>
Opt(s) == {None, PyStr(s)}
Channels == {None, PyStr(<<"g">>), PyStr(<<"C", "0", "1">>), PyStr(<<"#", "g">>)}
PrependHash == {PyStr(S_auto), PyStr(S_always), PyStr(S_never)}
SomeBlocks ==
    PyList(<<PyDict([type |-> PyStr(<<"s">>),
                     text |-> PyDict([type |-> PyStr(<<"m">>), text |-> PyStr(<<"'", "b">>)],
                                     <<"text", "type">>)],
                    <<"type", "text">>)>>)

\* Text, color, attachments and icons in every combination.
PayloadInputsA ==
    [text : OptText, color : Colors, attachments : OptAttachments,
     icon_url : Opt(S_url), icon_emoji : Opt(S_emoji),
     channel : {None}, thread_id : {None}, username : {None}, link_names : {None},
     parse : {None}, blocks : {None}, message_id : {None}, prepend_hash : {PyStr(S_auto)}]

\* The optional fields in every combination.
PayloadInputsB ==
    [text : {None, PyStr(<<"'">>)}, color : {PyStr(S_normal), PyStr(S_good)},
     attachments : {None, PyList(<<PyDict([text |-> AttachmentValue("text")], <<"text">>)>>)},
     icon_url : Opt(S_url), icon_emoji : Opt(S_emoji),
     channel : Channels, thread_id : Opt(S_ts), username : Opt(<<"u">>),
     link_names : {None, PyInt(1)}, parse : Opt(<<"f", "u", "l", "l">>),
     blocks : {None, SomeBlocks}, message_id : Opt(S_ts), prepend_hash : PrependHash]

\* Channels with and without each prefix, under every policy main can be given.
ChannelNames ==
    {<<>>, <<"g">>, <<"#", "g">>, <<"@", "u">>, <<"C", "0", "1">>, <<"G", "F", "1">>,
     <<"G", "0", "1">>, <<"C", "P", "1">>, <<"C", "1">>, <<"G">>, <<"c", "0">>, <<"g", "#">>}

PayloadInputsC ==
    [text : {PyStr(<<"h">>)}, color : {PyStr(S_normal)}, attachments : {None},
     icon_url : {PyStr(S_default_icon)}, icon_emoji : {None},
     channel : {PyStr(c) : c \in ChannelNames}, thread_id : {None},
     username : {PyStr(<<"Ansible">>)}, link_names : {PyInt(1)}, parse : {None},
     blocks : {None}, message_id : {None}, prepend_hash : PrependHash \cup {None}]

PayloadInputs == PayloadInputsA \cup PayloadInputsB \cup PayloadInputsC

TokenPrefixes == {<<>>, <<"x", "o", "x", "b", "-">>, <<"x", "o", "x", "a", "-">>,
                  <<"x", "o", "x", "p", "-">>, <<"x", "o", "x", "c", "-">>,
                  <<"x", "o", "x", "-">>}
TokenBodyChars == {"T", "/", " ", "\n", "\\x0b", "\\U000e0001"}
Tokens == {p \o b : p \in TokenPrefixes, b \in SeqsUpTo(TokenBodyChars, MaxBody)}

Domains == {None, PyStr(<<>>), PyStr(<<"d", ".", "s">>)}

\* Answers of the server to the message POST.
Infos == {[status |-> 200, msg |-> <<"OK (unknown bytes)">>],
          [status |-> 404, msg |-> <<"HTTP Error 404: Not Found">>]}
PostBodies ==
    {PyDict([ok |-> PyBool(TRUE), ts |-> PyStr(S_ts), channel |-> PyStr(<<"C", "0", "1">>)],
            <<"ok", "channel", "ts">>),
     PyDict([ok |-> PyBool(FALSE), error |-> PyStr(<<"invalid_auth">>)], <<"ok", "error">>),
     PyDict([warning |-> PyStr(<<"w">>)], <<"warning">>),
     PyList(<<>>),
     NotJson}

\* The payload is the one build_payload_for_slack makes for the text and the
\* message_id; the text is 'h' or the token itself.
NotifyInputs ==
    UNION {[domain : Domains, token : {t}, message_id : Opt(S_ts), text : {<<"h">>, t}] :
              t \in Tokens}

(***************************************************************************)
(* Variables not used by a specification keep these values.                *)
(***************************************************************************)
NoArgs == [none |-> TRUE]

MainIdle ==
    /\ params = NoArgs
    /\ check_mode = FALSE
    /\ file_state = "none"
    /\ changed = None
    /\ message = None
    /\ cursor = None
    /\ pages = 0
    /\ upload = None
    /\ outcome = None

(***************************************************************************)
(* build_payload_for_slack called on its own                               *)
(***************************************************************************)
PayloadOf(a) ==
    build_payload_for_slack(a.text, a.channel, a.thread_id, a.username, a.icon_url,
                            a.icon_emoji, a.link_names, a.parse, a.color, a.attachments,
                            a.blocks, a.message_id, a.prepend_hash)

\* Lines 685-692: an unset prepend_hash becomes 'auto'.
MainPrependHash(prepend_hash) ==
    IF prepend_hash = None THEN PyStr(S_auto) ELSE prepend_hash

InitPayload ==
    /\ pc = "build_payload_for_slack"
    /\ args \in PayloadInputs
    /\ ret = None
    /\ requests = <<>>
    /\ MainIdle

BuildPayloadCall ==
    /\ pc = "build_payload_for_slack"
    /\ ret' = PayloadOf(args)
    /\ args' = [args EXCEPT !.attachments = AttachmentsAfterCall(args.attachments)]
    /\ pc' = "returned"
    /\ UNCHANGED <<params, check_mode, file_state, requests, outcome, changed,
                   message, cursor, pages, upload>>

\* Lines 685-692 and 716-717: the call as main makes it.
MainBuildPayloadCall ==
    /\ pc = "build_payload_for_slack"
    /\ ret' = PayloadOf([args EXCEPT !.prepend_hash = MainPrependHash(args.prepend_hash)])
    /\ args' = [args EXCEPT !.attachments = AttachmentsAfterCall(args.attachments)]
    /\ pc' = "returned_to_main"
    /\ UNCHANGED <<params, check_mode, file_state, requests, outcome, changed,
                   message, cursor, pages, upload>>

NextPayload ==
    \/ BuildPayloadCall
    \/ MainBuildPayloadCall

SpecPayload == InitPayload /\ [][NextPayload]_vars

(***************************************************************************)
(* do_notify_slack called on its own                                       *)
(***************************************************************************)
NotifyPayload(text, message_id) ==
    build_payload_for_slack(PyStr(text), None, None, PyStr(<<"Ansible">>),
                            PyStr(S_default_icon), None, PyInt(1), None,
                            PyStr(S_normal), None, None, message_id, PyStr(S_auto)).v

InitNotify ==
    /\ pc = "do_notify_slack"
    /\ args \in NotifyInputs
    /\ ret = None
    /\ requests = <<>>
    /\ MainIdle

DoNotifySlackCall ==
    /\ pc = "do_notify_slack"
    /\ \E info \in Infos, body \in PostBodies :
          LET r == do_notify_slack(args.domain, args.token, NotifyPayload(args.text, args.message_id),
                                   info, body) IN
          /\ requests' = requests \o Answered(r.requests, info, body)
          /\ ret' = r.result
    /\ pc' = "returned"
    /\ UNCHANGED <<params, check_mode, file_state, outcome, changed,
                   message, cursor, pages, upload, args>>

NextNotify == DoNotifySlackCall

SpecNotify == InitNotify /\ [][NextNotify]_vars

(***************************************************************************)
(* is_valid_hex_color, get_slack_message                                   *)
(***************************************************************************)
HexDigits == {"0", "1", "2", "3", "4", "5", "6", "7", "8", "9",
              "a", "b", "c", "d", "e", "f", "A", "B", "C", "D", "E", "F"}

\* re.match(r'^#([A-Fa-f0-9]{6}|[A-Fa-f0-9]{3})$', color_choice)
is_valid_hex_color(color_choice) ==
    \E e \in {Len(color_choice)} \cup
             (IF Len(color_choice) >= 1 /\ color_choice[Len(color_choice)] = "\n"
              THEN {Len(color_choice) - 1} ELSE {}) :
        /\ e \in {4, 7}
        /\ color_choice[1] = "#"
        /\ \A i \in 2..e : color_choice[i] \in HexDigits

color_choices == {S_normal, S_good, S_warning, S_danger}

Bearer(token) == <<"Bearer ">> \o token

\* Lines 420-443.  info and body are the answer to the GET.
get_slack_message(token, channel, ts, info, body) ==
    [requests |-> <<[method |-> "GET",
                     url |-> SLACK_CONVERSATIONS_HISTORY_WEBAPI,
                     headers |-> ("Content-Type" :> <<"application/json; charset=UTF-8">>) @@
                                 ("Accept" :> <<"application/json">>) @@
                                 ("Authorization" :> Bearer(token)),
                     data |-> [channel |-> channel, ts |-> ts, limit |-> PyInt(1),
                               inclusive |-> PyStr(<<"true">>)]]>>,
     result |->
        IF info.status # 200
        THEN Fail([msg |-> <<"failed to get slack message">>])
        ELSE IF from_json(body).t = "raise" THEN from_json(body)
        ELSE LET data == from_json(body).v IN
             IF data.t # "dict" THEN Raise("AttributeError")
             ELSE IF DictGet(data.v, "ok") = PyBool(FALSE)
             THEN Fail([msg |-> <<"failed to get slack message: ">> \o py_str(data)])
             ELSE IF "messages" \notin DOMAIN data.v THEN Raise("KeyError")
             ELSE IF Len(data.v["messages"].v) < 1
             THEN Fail([msg |-> <<"no messages matching ts: ">> \o ts.v])
             ELSE IF Len(data.v["messages"].v) > 1
             THEN Fail([msg |-> <<"more than 1 message matching ts: ">> \o ts.v])
             ELSE Return(data.v["messages"].v[1])]

(***************************************************************************)
(* get_channel_id: one pass of the loop (lines 494-520)                    *)
(***************************************************************************)
\* The name of the type of x, as Python's error texts write it.
TypeName(x) ==
    CASE x.t = "None" -> "NoneType"
      [] x.t = "bool" -> "bool"
      [] x.t = "int"  -> "int"
      [] x.t = "str"  -> "str"
      [] x.t = "list" -> "list"
      [] x.t = "dict" -> "dict"

\* An exception with the value it was raised on.
RaiseOn(e, x) == [t |-> "raise", v |-> e, x |-> x]

\* str(e) of the AttributeError of x.get and of the TypeError of `for ... in x'.
ErrorText(r) ==
    IF r.v = "AttributeError"
    THEN <<"'", TypeName(r.x), "' object has no attribute 'get'">>
    ELSE <<"'", TypeName(r.x), "' object is not iterable">>

\* `for channel in channels' (line 513): the elements of a list, the keys of
\* a dict, the characters of a str; a TypeError for the other values.
Iterate(x) ==
    CASE x.t = "list" -> Return(x.v)
      [] x.t = "dict" -> Return([i \in 1..Len(x.k) |-> PyStr(<<x.k[i]>>)])
      [] x.t = "str"  -> Return([i \in 1..Len(x.v) |-> PyStr(<<x.v[i]>>)])
      [] OTHER -> RaiseOn("TypeError", x)

\* Lines 513-516: the entries in turn; the first whose name equals
\* channel_name ends the loop with its 'id' (None when it has none), an
\* entry that is no dict ends it with the AttributeError of channel.get.
RECURSIVE ScanChannels(_, _)
ScanChannels(channels, channel_name) ==
    IF channels = <<>> THEN [t |-> "no_match"]
    ELSE IF Head(channels).t # "dict" THEN RaiseOn("AttributeError", Head(channels))
    ELSE IF PyEq(DictGet(Head(channels).v, "name"), channel_name)
    THEN Return(DictGet(Head(channels).v, "id"))
    ELSE ScanChannels(Tail(channels), channel_name)

\* cur is the cursor of the previous pass (None on the first).  The value
\* tells how the pass ends: the function returns an id, fails, or loops with
\* a new cursor.
get_channel_id_page(token, channel_name, cur, info, body) ==
    [requests |-> <<[method |-> "GET",
                     url |-> SLACK_CONVERSATIONS_LIST_WEBAPI,
                     headers |-> ("Authorization" :> Bearer(token)),
                     data |-> IF Truthy(cur)
                              THEN [types |-> PyStr(<<"public_channel,private_channel,mpim,im">>),
                                    limit |-> PyInt(1000),
                                    exclude_archived |-> PyStr(<<"true">>),
                                    cursor |-> cur]
                              ELSE [types |-> PyStr(<<"public_channel,private_channel,mpim,im">>),
                                    limit |-> PyInt(1000),
                                    exclude_archived |-> PyStr(<<"true">>)]]>>,
     result |->
        IF info.status # 200
        THEN Fail([msg |-> <<"Failed to retrieve channels: ">> \o info.msg
                               \o <<" (HTTP ", ToString(info.status), ")">>])
        ELSE IF body.t = "notjson"
        THEN Fail([msg |-> <<"JSON decode error: ", "Expecting value: line 1 column 1 (char 0)">>])
        ELSE IF body.t # "dict" THEN RaiseOn("AttributeError", body)
        ELSE LET data == body.v
                 channels == IF "channels" \in DOMAIN data THEN data["channels"]
                             ELSE PyList(<<>>)
                 response_metadata == IF "response_metadata" \in DOMAIN data
                                      THEN data["response_metadata"] ELSE EmptyDict
             IN  IF ~Truthy(DictGet(data, "ok"))
                 THEN Fail([msg |-> <<"Slack API error: ">>
                                    \o (IF "error" \in DOMAIN data THEN py_str(data["error"])
                                        ELSE <<"Unknown error">>)])
                 ELSE IF Iterate(channels).t = "raise" THEN Iterate(channels)
                 ELSE IF ScanChannels(Iterate(channels).v, channel_name).t # "no_match"
                 THEN ScanChannels(Iterate(channels).v, channel_name)
                 ELSE IF response_metadata.t # "dict"
                 THEN RaiseOn("AttributeError", response_metadata)
                 ELSE IF ~Truthy(DictGet(response_metadata.v, "next_cursor"))
                 THEN Fail([msg |-> <<"Channel named '">> \o py_str(channel_name)
                                    \o <<"' not found.">>])
                 ELSE [t |-> "continue", v |-> DictGet(response_metadata.v, "next_cursor")]]

(***************************************************************************)
(* main: the parameters after AnsibleModule applied the argument_spec      *)
(***************************************************************************)
S_blue == <<"b", "l", "u", "e">>
S_C01 == <<"C", "0", "1">>

WebApiToken == <<"x", "o", "x", "b", "-", "T">>
NewWebhookToken == <<"T", "/", "B", "/", "X">>
LegacyToken == <<"T">>

UploadFile == PyDict([path |-> PyStr(<<"/", "f">>), title |-> PyStr(<<"t">>)], <<"path", "title">>)

AttachmentWithText == PyList(<<PyDict([text |-> AttachmentValue("text")], <<"text">>)>>)
AttachmentWithoutText == PyList(<<PyDict([title |-> AttachmentValue("title")], <<"title">>)>>)

MainParams ==
    [domain : {None, PyStr(<<"d", ".", "s">>)},
     token : {PyStr(WebApiToken), PyStr(NewWebhookToken), PyStr(LegacyToken)},
     msg : {None, PyStr(<<"'">>)},
     channel : {None, PyStr(<<"g">>)},
     thread_id : {None},
     username : {PyStr(<<"Ansible">>)},
     icon_url : {PyStr(S_default_icon)},
     icon_emoji : Opt(S_emoji),
     link_names : {PyInt(1)},
     parse : {None},
     color : {PyStr(S_normal), PyStr(S_good), PyStr(S_blue)},
     attachments : {None, AttachmentWithText, AttachmentWithoutText},
     blocks : {None, SomeBlocks},
     message_id : Opt(S_ts),
     prepend_hash : {None, PyStr(S_never)},
     upload_file : {None, UploadFile}]

\* Messages the history endpoint can return.
Messages ==
    [icon_url : Opt(S_default_icon), icon_emoji : Opt(S_emoji),
     link_names : {None, PyInt(1), PyBool(TRUE)}, color : {None, PyStr(S_normal)},
     attachments : {None, AttachmentWithText}, blocks : {None, SomeBlocks},
     text : {PyStr(<<"'">>)}, ts : {PyStr(S_ts)}, channel : {PyStr(S_C01)}]

\* The order of the keys of a message in the answer.
MessageKeys ==
    <<"text", "ts", "channel", "icon_url", "icon_emoji", "link_names", "color",
      "attachments", "blocks">>

\* Answers to the history GET: no bytes, a JSON list, and objects whose
\* members come in either order.
HistoryBodies ==
    {NotJson,
     PyList(<<>>),
     PyDict([ok |-> PyBool(FALSE), error |-> PyStr(<<"e">>)], <<"ok", "error">>),
     PyDict([ok |-> PyBool(FALSE), error |-> PyStr(<<"e">>)], <<"error", "ok">>),
     PyDict([ok |-> PyBool(TRUE), messages |-> PyList(<<>>)], <<"ok", "messages">>)}
    \cup {PyDict([ok |-> PyBool(TRUE), messages |-> PyList(<<PyDict(m, MessageKeys)>>)],
                 <<"ok", "messages">>) : m \in Messages}
    \cup {PyDict([ok |-> PyBool(TRUE),
                  messages |-> PyList(<<PyDict(m, MessageKeys), PyDict(m, MessageKeys)>>)],
                 <<"ok", "messages">>) :
            m \in {CHOOSE x \in Messages : TRUE}}

Init ==
    /\ pc = "main"
    /\ params \in MainParams
    /\ Truthy(params.upload_file) =>
          /\ params.attachments = None
          /\ params.blocks = None
          /\ params.icon_emoji = None
          /\ params.prepend_hash = None
    /\ params.message_id # None => params.prepend_hash = None
    /\ check_mode \in BOOLEAN
    /\ file_state \in (IF Truthy(params.upload_file) THEN {"missing", "unreadable", "ok"}
                       ELSE {"none"})
    /\ requests = <<>>
    /\ outcome = None
    /\ changed = None
    /\ message = None
    /\ cursor = None
    /\ pages = 0
    /\ upload = None
    /\ args = NoArgs
    /\ ret = None

\* Variant: an edit request goes before the upload.
UploadRequested_unless_edit == Truthy(params.upload_file) /\ params.message_id = None

\* Line 672: `if upload_file:'
UploadRequested == Truthy(params.upload_file)

Finish(result) ==
    /\ outcome' = result
    /\ pc' = "done"

(***************************************************************************)
(* main, message path                                                      *)
(***************************************************************************)
\* Lines 685-714 up to the first request.
MainStart ==
    /\ pc = "main"
    /\ ~UploadRequested
    /\ IF params.color.v \notin color_choices /\ ~is_valid_hex_color(params.color.v)
       THEN /\ Finish(Fail([msg |-> <<"Color value specified should be either one of ['normal', 'good', 'warning', 'danger'] or any valid hex value with length 3 or 6.">>]))
            /\ UNCHANGED changed
       ELSE IF params.message_id # None
       THEN /\ pc' = "get_slack_message"
            /\ changed' = PyBool(FALSE)
            /\ UNCHANGED outcome
       ELSE IF check_mode
       THEN /\ Finish(Exit([changed |-> PyBool(TRUE)]))
            /\ changed' = PyBool(TRUE)
       ELSE /\ pc' = "notify"
            /\ changed' = PyBool(TRUE)
            /\ UNCHANGED outcome
    /\ UNCHANGED <<params, check_mode, file_state, requests, message, cursor, pages,
                   upload, args, ret>>

\* Variant: 'blocks' is left out of the comparison.
compare_keys_without_blocks == {"icon_url", "icon_emoji", "link_names", "color", "attachments"}

\* Line 705
compare_keys == {"icon_url", "icon_emoji", "link_names", "color", "attachments", "blocks"}

\* Lines 705-708
EditChanged(msg, p) == \E key \in compare_keys : ~PyEq(DictGet(msg, key), DictGet(p, key))

\* Lines 704-712
GetSlackMessage ==
    /\ pc = "get_slack_message"
    /\ \E info \in Infos, body \in HistoryBodies :
          LET r == get_slack_message(params.token.v, params.channel, params.message_id,
                                     info, body) IN
          /\ requests' = requests \o Answered(r.requests, info, body)
          /\ IF r.result.t = "return"
             THEN LET msg == r.result.v.v IN
                  /\ message' = r.result.v
                  /\ changed' = PyBool(EditChanged(msg, params))
                  /\ IF check_mode \/ ~EditChanged(msg, params)
                     THEN IF {"ts", "channel"} \subseteq DOMAIN msg
                          THEN Finish(Exit([changed |-> PyBool(EditChanged(msg, params)),
                                            ts |-> msg["ts"], channel |-> msg["channel"]]))
                          ELSE Finish(Raise("KeyError"))
                     ELSE /\ pc' = "notify"
                          /\ UNCHANGED outcome
             ELSE /\ Finish(r.result)
                  /\ UNCHANGED <<message, changed>>
    /\ UNCHANGED <<params, check_mode, file_state, cursor, pages, upload, args, ret>>

\* Lines 720-732
\* `'ok' in slack_response' (line 720): a key of a dict, an element of a
\* list, a part of a str; a TypeError for a value that holds nothing.
OkIn(slack_response) ==
    CASE slack_response.t = "dict" -> "ok" \in DOMAIN slack_response.v
      [] slack_response.t = "list" ->
            \E i \in 1..Len(slack_response.v) : slack_response.v[i] = PyStr(<<"o", "k">>)
      [] slack_response.t = "str" ->
            \E i \in 1..(Len(slack_response.v) - 1) :
                slack_response.v[i] = "o" /\ slack_response.v[i + 1] = "k"

MainResult(slack_response, payload) ==
    IF slack_response.t \notin {"dict", "list", "str"} THEN Raise("TypeError")
    ELSE IF OkIn(slack_response)
    THEN IF slack_response.t # "dict" THEN Raise("TypeError")
         ELSE IF Truthy(slack_response.v["ok"])
         THEN IF {"ts", "channel"} \subseteq DOMAIN slack_response.v
              THEN Exit([changed |-> changed, ts |-> slack_response.v["ts"],
                         channel |-> slack_response.v["channel"],
                         api |-> slack_response, payload |-> PyStr(jsonify(payload))])
              ELSE Raise("KeyError")
         ELSE IF "error" \in DOMAIN slack_response.v
              THEN Fail([msg |-> <<"Slack API error">>, error |-> slack_response.v["error"]])
              ELSE Raise("KeyError")
    ELSE Exit([msg |-> <<"OK">>])

\* Lines 716-732
NotifySlack ==
    /\ pc = "notify"
    /\ LET built == build_payload_for_slack(
                        params.msg, params.channel, params.thread_id, params.username,
                        params.icon_url, params.icon_emoji, params.link_names, params.parse,
                        params.color, params.attachments, params.blocks, params.message_id,
                        MainPrependHash(params.prepend_hash))
       IN  IF built.t = "raise"
           THEN /\ Finish(built)
                /\ UNCHANGED requests
           ELSE \E info \in Infos, body \in PostBodies :
                   LET r == do_notify_slack(params.domain, params.token.v, built.v, info, body) IN
                   /\ requests' = requests \o Answered(r.requests, info, body)
                   /\ IF r.result.t = "return"
                      THEN Finish(MainResult(r.result.v, built.v))
                      ELSE Finish(r.result)
    /\ params' = [params EXCEPT !.attachments = AttachmentsAfterCall(params.attachments)]
    /\ UNCHANGED <<check_mode, file_state, changed, message, cursor, pages,
                   upload, args, ret>>

(***************************************************************************)
(* main, upload path: upload_file_to_slack and get_channel_id              *)
(***************************************************************************)
S_upload_url == <<"https://files.slack.com/upload/v1/abc">>

UploadUrlBodies ==
    {NotJson,
     PyList(<<>>),
     PyDict([ok |-> PyBool(FALSE), error |-> PyStr(<<"e">>)], <<"ok", "error">>),
     PyDict([ok |-> PyBool(TRUE)], <<"ok">>),
     PyDict([ok |-> PyBool(TRUE), upload_url |-> PyStr(S_upload_url),
             file_id |-> PyStr(<<"F", "1">>)], <<"ok", "upload_url", "file_id">>)}

\* The body of the answer to the file-bytes POST is never read.
BytesBodies == {NotJson, PyDict([ok |-> PyBool(TRUE)], <<"ok">>)}

\* Entries of a page: channels with a name and an id, one without id, one
\* without name, and an entry that is no object.
ChannelEntries ==
    {PyDict([name |-> PyStr(<<"g">>), id |-> PyStr(<<"C", "1">>)], <<"id", "name">>),
     PyDict([name |-> PyStr(<<"g">>)], <<"name">>),
     PyDict([name |-> PyStr(<<"h">>), id |-> PyStr(<<"C", "3">>)], <<"id", "name">>),
     PyDict([id |-> PyStr(<<"D", "1">>)], <<"id">>),
     PyInt(1)}

PageBodies ==
    {NotJson, PyList(<<>>),
     PyDict([ok |-> PyBool(FALSE), error |-> PyStr(<<"e">>)], <<"ok", "error">>),
     PyDict([ok |-> PyBool(FALSE), error |-> None], <<"ok", "error">>),
     PyDict([ok |-> PyBool(TRUE), channels |-> None], <<"ok", "channels">>),
     PyDict([ok |-> PyBool(TRUE), channels |-> PyStr(<<"g">>)], <<"ok", "channels">>),
     PyDict([ok |-> PyBool(TRUE), channels |-> PyList(<<>>), response_metadata |-> None],
            <<"ok", "channels", "response_metadata">>)}
    \cup {PyDict([ok |-> PyBool(TRUE), channels |-> PyList(l)], <<"ok", "channels">>) :
            l \in SeqsUpTo(ChannelEntries, 2)}
    \cup {PyDict([ok |-> PyBool(TRUE), channels |-> PyList(l),
                  response_metadata |-> PyDict([next_cursor |-> PyStr(c)], <<"next_cursor">>)],
                 <<"ok", "channels", "response_metadata">>) :
            l \in SeqsUpTo(ChannelEntries, 2), c \in {<<>>, <<"n", "1">>, <<"n", "2">>}}

\* Answers to the completion POST; the refusal comes with its members in
\* either order.
CompleteBodies ==
    {NotJson,
     PyList(<<>>),
     PyDict([ok |-> PyBool(FALSE), error |-> PyStr(<<"e">>)], <<"ok", "error">>),
     PyDict([ok |-> PyBool(FALSE), error |-> PyStr(<<"e">>)], <<"error", "ok">>),
     PyDict([ok |-> PyBool(TRUE),
             files |-> PyList(<<PyDict([id |-> PyStr(<<"F", "1">>)], <<"id">>)>>)],
            <<"ok", "files">>)}

\* str(e) of the AttributeError that x.get raises on a value that is no dict.
NoGetAttribute(x) == <<"'", TypeName(x), "' object has no attribute 'get'">>

\* os.path.basename: what follows the last '/'.
RECURSIVE basename(_)
basename(path) ==
    IF \E i \in 1..Len(path) : path[i] = "/" THEN basename(Tail(path)) ELSE path

\* `if d.get(key): target[key] = d.get(key)'
SetIfTruthy(target, d, key) ==
    IF Truthy(DictGet(d, key)) THEN DictSet(target, key, d[key]) ELSE target

\* Lines 535-542: the query of the get-upload-URL request.
UploadUrlQuery(file_upload, size) ==
    SetIfTruthy(
        SetIfTruthy([filename |-> IF "filename" \in DOMAIN file_upload
                                  THEN file_upload["filename"]
                                  ELSE PyStr(basename(file_upload["path"].v)),
                     length |-> PyInt(size)],
                    file_upload, "alt_text"),
        file_upload, "snippet_type")

\* Lines 582-595: the body of the completion request.
CompleteData(file_upload, file_id, channel_id) ==
    SetIfTruthy(
        SetIfTruthy([files |-> PyList(<<PyDict(SetIfTruthy([id |-> file_id], file_upload, "title"),
                                               IF Truthy(DictGet(file_upload, "title"))
                                               THEN <<"id", "title">> ELSE <<"id">>)>>),
                     channel_id |-> channel_id],
                    file_upload, "initial_comment"),
        file_upload, "thread_ts")

\* Sizes of the file to upload (os.path.getsize, line 537).
FileSizes == {11}

\* ' (HTTP <status>)' as the upload flow and get_channel_id append it.
HttpStatusText(info) == <<" (HTTP ", ToString(info.status), ")">>

\* Lines 526-562: the file check and the get-upload-URL request.
UploadGetUrl ==
    /\ pc = "main"
    /\ UploadRequested
    /\ IF file_state = "missing"
       THEN /\ Finish(Fail([msg |-> <<"File not found: ">> \o params.upload_file.v["path"].v]))
            /\ UNCHANGED <<requests, upload>>
       ELSE \E info \in Infos, body \in UploadUrlBodies, size \in FileSizes :
               /\ requests' = Append(requests,
                      [method |-> "GET", url |-> SLACK_GET_UPLOAD_URL_EXTERNAL,
                       headers |-> ("Authorization" :> Bearer(params.token.v)) @@
                                   ("Content-Type" :> <<"application/x-www-form-urlencoded">>),
                       data |-> UploadUrlQuery(params.upload_file.v, size),
                       answer |-> AnswerOf(info, body)])
               /\ IF info.status # 200
                  THEN /\ Finish(Fail([msg |-> <<"Error retrieving upload URL: ">> \o info.msg
                                               \o HttpStatusText(info)]))
                       /\ UNCHANGED upload
                  ELSE IF body.t = "notjson"
                  THEN /\ Finish(Fail([msg |-> <<"The Slack API response is not valid JSON: ", "b''">>]))
                       /\ UNCHANGED upload
                  ELSE IF body.t # "dict"
                  THEN /\ Finish(Fail([msg |-> <<"Error uploading file: ">> \o NoGetAttribute(body)]))
                       /\ UNCHANGED upload
                  ELSE IF ~Truthy(DictGet(body.v, "ok"))
                  THEN /\ Finish(Fail([msg |-> <<"Failed to retrieve upload URL: ">>
                                               \o py_str(DictGet(body.v, "error"))]))
                       /\ UNCHANGED upload
                  ELSE IF ~({"upload_url", "file_id"} \subseteq DOMAIN body.v)
                  THEN /\ Finish(Fail([msg |-> <<"Error uploading file: ", "'",
                                                 IF "upload_url" \notin DOMAIN body.v
                                                 THEN "upload_url" ELSE "file_id",
                                                 "'">>]))
                       /\ UNCHANGED upload
                  ELSE /\ upload' = [upload_url |-> body.v["upload_url"],
                                     file_id |-> body.v["file_id"]]
                       /\ pc' = "upload_bytes"
                       /\ UNCHANGED outcome
    /\ UNCHANGED <<params, check_mode, file_state, changed, message, cursor, pages, args, ret>>

\* Lines 564-579: read the file and POST its bytes.
UploadBytes ==
    /\ pc = "upload_bytes"
    /\ IF file_state = "unreadable"
       THEN /\ Finish(Fail([msg |-> <<"The file ">> \o params.upload_file.v["path"].v
                                    \o <<" is not found.">>]))
            /\ UNCHANGED requests
       ELSE \E info \in Infos, body \in BytesBodies :
               /\ requests' = Append(requests,
                      [method |-> "POST", url |-> upload.upload_url.v,
                       headers |-> ("Content-Type" :> <<"application/octet-stream">>),
                       data |-> [file_content |-> params.upload_file.v["path"]],
                       answer |-> AnswerOf(info, body)])
               /\ IF info.status # 200
                  THEN Finish(Fail([msg |-> <<"Error during file upload: ">> \o info.msg
                                           \o HttpStatusText(info)]))
                  ELSE /\ pc' = "get_channel_id"
                       /\ UNCHANGED outcome
    /\ UNCHANGED <<params, check_mode, file_state, changed, message, cursor, pages,
                   upload, args, ret>>

\* Lines 493-521: one pass of the loop of get_channel_id, called at line 588.
\* The server sends at most MaxPages pages.
GetChannelPage ==
    /\ pc = "get_channel_id"
    /\ \E info \in Infos, body \in PageBodies :
          LET r == get_channel_id_page(params.token.v, params.channel, cursor, info, body) IN
          /\ r.result.t = "continue" => pages + 1 < MaxPages
          /\ requests' = requests \o Answered(r.requests, info, body)
          /\ pages' = pages + 1
          /\ CASE r.result.t = "continue" ->
                    /\ cursor' = r.result.v
                    /\ UNCHANGED <<pc, outcome, upload>>
               [] r.result.t = "return" ->
                    /\ upload' = [upload_url |-> upload.upload_url, file_id |-> upload.file_id,
                                  channel_id |-> r.result.v]
                    /\ pc' = "complete_upload"
                    /\ UNCHANGED <<cursor, outcome>>
               [] r.result.t = "raise" ->
                    /\ Finish(Fail([msg |-> <<"Error uploading file: ">> \o ErrorText(r.result)]))
                    /\ UNCHANGED <<cursor, upload>>
               [] OTHER ->
                    /\ Finish(r.result)
                    /\ UNCHANGED <<cursor, upload>>
    /\ UNCHANGED <<params, check_mode, file_state, changed, message, args, ret>>

\* Lines 581-616 after the channel was resolved, and lines 677-681 of main.
UploadComplete ==
    /\ pc = "complete_upload"
    /\ \E info \in Infos, body \in CompleteBodies :
          /\ requests' = Append(requests,
                 [method |-> "POST", url |-> SLACK_COMPLETE_UPLOAD_EXTERNAL,
                  headers |-> ("Authorization" :> Bearer(params.token.v)) @@
                              ("Content-Type" :> <<"application/json">>),
                  data |-> CompleteData(params.upload_file.v, upload.file_id, upload.channel_id),
                  answer |-> AnswerOf(info, body)])
          /\ IF info.status # 200
             THEN Finish(Fail([msg |-> <<"Error during upload completion: ">> \o info.msg
                                      \o HttpStatusText(info)]))
             ELSE IF body.t = "notjson"
             THEN Finish(Fail([msg |-> <<"The Slack API response is not valid JSON: ", "b''">>]))
             ELSE IF body.t # "dict"
             THEN Finish(Fail([msg |-> <<"Error uploading file: ">> \o NoGetAttribute(body)]))
             ELSE IF ~Truthy(DictGet(body.v, "ok"))
             THEN Finish(Fail([msg |-> <<"Failed to complete the upload: ">> \o py_repr(body)]))
             ELSE Finish(Exit([changed |-> PyBool(TRUE),
                               msg |-> <<"File uploaded successfully">>,
                               upload_response |-> body]))
    /\ UNCHANGED <<params, check_mode, file_state, changed, message, cursor, pages,
                   upload, args, ret>>

Next ==
    \/ MainStart
    \/ GetSlackMessage
    \/ NotifySlack
    \/ UploadGetUrl
    \/ UploadBytes
    \/ GetChannelPage
    \/ UploadComplete

Spec == Init /\ [][Next]_vars

(***************************************************************************)
(* Properties                                                              *)
(***************************************************************************)
IsPost(r) == r.method = "POST"
NoPost == \A i \in 1..Len(requests) : ~IsPost(requests[i])

NewWebhookUrl(token) == <<"https://hooks.slack.com/services/">> \o token
LegacyWebhookUrl(domain, token) ==
    <<"https://">> \o domain \o <<"/services/hooks/incoming-webhook?token=">> \o token
WebApiUrls == {<<"https://slack.com/api/chat.postMessage">>, <<"https://slack.com/api/chat.update">>}

IsNewWebhookUrl(u) == Head(u) = "https://hooks.slack.com/services/"
IsLegacyWebhookUrl(u) == Head(u) = "https://"
IsWebApiUrl(u) == u \in WebApiUrls
Slashes(token) == Cardinality({i \in 1..Len(token) : token[i] = "/"})

NotifyReturned == pc = "returned" /\ "token" \in DOMAIN args

\* C4: a token with two or more '/' is always posted to the new-style
\* webhook URL built from it, with no Authorization header, also when it
\* matches the WebAPI pattern; and every request of do_notify_slack goes to
\* exactly one of the three kinds of URL.
C4_SlashTokenIsNewWebhook ==
    NotifyReturned =>
        /\ Slashes(args.token) >= 2 =>
              /\ Len(requests) = 1
              /\ IsPost(requests[1])
              /\ requests[1].url = NewWebhookUrl(args.token)
              /\ "Authorization" \notin DOMAIN requests[1].headers
        /\ \A i \in 1..Len(requests) :
              Cardinality({k \in {"new", "webapi", "legacy"} :
                  \/ k = "new" /\ IsNewWebhookUrl(requests[i].url)
                  \/ k = "webapi" /\ IsWebApiUrl(requests[i].url)
                  \/ k = "legacy" /\ IsLegacyWebhookUrl(requests[i].url)}) = 1

C4_Witness ==
    /\ NotifyReturned
    /\ Slashes(args.token) >= 2
    /\ MatchesWebApiToken(args.token)
    /\ Len(requests) = 1
    /\ requests[1].url = NewWebhookUrl(args.token)

\* The JSON text sent has a member 'ts'.
HasTs(data) ==
    \E i \in 1..(Len(data) - 3) : SubSeq(data, i, i + 3) = <<"\"", "ts", "\"", ": ">>

WebApiRequest(token, message_id) ==
    /\ Len(requests) = 1
    /\ IsPost(requests[1])
    /\ "Authorization" \in DOMAIN requests[1].headers
    /\ requests[1].headers["Authorization"] = <<"Bearer ">> \o token
    /\ HasTs(requests[1].data) <=> (message_id # None)
    /\ requests[1].url = IF HasTs(requests[1].data)
                         THEN <<"https://slack.com/api/chat.update">>
                         ELSE <<"https://slack.com/api/chat.postMessage">>

\* C5 as stated: every token matching xox[abp]-\S+ is sent with a Bearer
\* header to chat.update if the payload has 'ts' (message_id given) and to
\* chat.postMessage otherwise.
C5_Original ==
    NotifyReturned /\ MatchesWebApiToken(args.token) =>
        WebApiRequest(args.token, args.message_id)

\* C5 amended: every token matching xox[abp]-\S+ that has fewer than two '/'
\* is sent with a Bearer header to chat.update if the payload has 'ts'
\* (message_id given) and to chat.postMessage otherwise.
C5_Amended ==
    NotifyReturned /\ MatchesWebApiToken(args.token) /\ Slashes(args.token) < 2 =>
        WebApiRequest(args.token, args.message_id)

C5_Witness ==
    /\ NotifyReturned
    /\ MatchesWebApiToken(args.token)
    /\ Slashes(args.token) = 1
    /\ args.message_id # None
    /\ Len(requests) = 1
    /\ requests[1].url = <<"https://slack.com/api/chat.update">>

\* C6: a token that is neither new-style nor WebAPI fails with the
\* configuration error and no request when the domain is absent or empty,
\* and is posted to the legacy URL of the domain, with no Authorization
\* header, when a domain is given.
C6_LegacyNeedsDomain ==
    NotifyReturned /\ Slashes(args.token) < 2 /\ ~MatchesWebApiToken(args.token) =>
        IF args.domain = None \/ args.domain = PyStr(<<>>)
        THEN /\ requests = <<>>
             /\ ret.t = "fail_json"
             /\ Head(ret.v.msg) = "Slack has updated its webhook API.  You need to specify a token of the form XXXX/YYYY/ZZZZ in your playbook"
        ELSE /\ Len(requests) = 1
             /\ IsPost(requests[1])
             /\ requests[1].url = LegacyWebhookUrl(args.domain.v, args.token)
             /\ "Authorization" \notin DOMAIN requests[1].headers

C6_Witness ==
    /\ NotifyReturned
    /\ Slashes(args.token) < 2
    /\ ~MatchesWebApiToken(args.token)
    /\ args.domain = PyStr(<<>>)
    /\ requests = <<>>
    /\ ret.t = "fail_json"

PayloadReturned == pc = "returned" /\ "text" \in DOMAIN args

\* A step in which build_payload_for_slack is called on its own and ends.
PayloadCalled == pc = "build_payload_for_slack" /\ pc' = "returned"

\* The text with a backslash before every ' and ".
RECURSIVE Backslashed(_)
Backslashed(text) ==
    IF text = <<>> THEN <<>>
    ELSE (IF Head(text) \in {"'", "\""} THEN <<"\\", Head(text)>> ELSE <<Head(text)>>)
         \o Backslashed(Tail(text))

\* The text as the payload carries it: top-level, or in the first attachment.
PlacedText(payload) ==
    IF "text" \in DOMAIN payload THEN payload["text"].v
    ELSE payload["attachments"].v[1].v["text"].v

\* The caller's attachments are the last ones of the payload's list.
CallerAttachment(payload, attachments, i) ==
    payload["attachments"].v[Len(payload["attachments"].v) - Len(attachments) + i].v

\* C7: the text placed in the payload, and the title, text, author_name,
\* pretext and fallback of each attachment, are the input with a backslash
\* before every single and double quote and nothing else changed.  (A step
\* of the call: args is what the caller passed, ret' what comes back.)
C7_QuotesBackslashed ==
    [][PayloadCalled /\ ret'.t = "return" =>
        /\ args.text # None => PlacedText(ret'.v.v) = Backslashed(args.text.v)
        /\ args.attachments # None =>
              \A i \in 1..Len(args.attachments.v) :
                 \A k \in (DOMAIN args.attachments.v[i].v) \cap attachment_keys_to_escape :
                    CallerAttachment(ret'.v.v, args.attachments.v, i)[k].v
                        = Backslashed(args.attachments.v[i].v[k].v)]_vars

SyntheticAttachment(text, color) ==
    PyDict([text |-> PyStr(escape_quotes(text.v)), color |-> color,
            mrkdwn_in |-> PyList(<<PyStr(<<"t", "e", "x", "t">>)>>)],
           <<"text", "color", "mrkdwn_in">>)

CallerCount(a) == IF a.attachments = None THEN 0 ELSE Len(a.attachments.v)

TextTopLevel(payload, a) ==
    /\ "text" \in DOMAIN payload
    /\ IF a.attachments = None THEN "attachments" \notin DOMAIN payload
       ELSE Len(payload["attachments"].v) = CallerCount(a)

TextInAttachment(payload, a) ==
    /\ "text" \notin DOMAIN payload
    /\ "attachments" \in DOMAIN payload
    /\ Len(payload["attachments"].v) = 1 + CallerCount(a)
    /\ payload["attachments"].v[1] = SyntheticAttachment(a.text, a.color)
    /\ \A i \in 1..CallerCount(a) :
          /\ DOMAIN a.attachments.v[i].v \subseteq DOMAIN payload["attachments"].v[i + 1].v
          /\ \A k \in (DOMAIN a.attachments.v[i].v) \ attachment_keys_to_escape :
                payload["attachments"].v[i + 1].v[k] = a.attachments.v[i].v[k]

\* C8 as stated: with a text, a color "normal" or absent gives a top-level
\* text and no synthetic attachment; any other color gives no top-level text
\* and one synthetic attachment first, the caller's attachments after it.
C8_Original ==
    [][PayloadCalled /\ ret'.t = "return" /\ args.text # None =>
        IF args.color = PyStr(<<"n", "o", "r", "m", "a", "l">>) \/ args.color = None
        THEN TextTopLevel(ret'.v.v, args)
        ELSE TextInAttachment(ret'.v.v, args)]_vars

\* C8 amended: with a text, the color "normal" gives a top-level text and no
\* synthetic attachment; any other color, None included, gives no top-level
\* text and one synthetic attachment first, the caller's attachments after it.
C8_Amended ==
    [][PayloadCalled /\ ret'.t = "return" /\ args.text # None =>
        IF args.color = PyStr(<<"n", "o", "r", "m", "a", "l">>)
        THEN TextTopLevel(ret'.v.v, args)
        ELSE TextInAttachment(ret'.v.v, args)]_vars

C8_Witness ==
    /\ PayloadReturned
    /\ ret.t = "return"
    /\ args.text # None
    /\ args.color = PyStr(<<"g", "o", "o", "d">>)
    /\ CallerCount(args) = 1
    /\ Len(ret.v.v["attachments"].v) = 2
    /\ "text" \notin DOMAIN ret.v.v

\* The payload field each optional input sets.
FieldOf ==
    [text |-> "text", channel |-> "channel", thread_id |-> "thread_ts", username |-> "username",
     icon_url |-> "icon_url", icon_emoji |-> "icon_emoji", link_names |-> "link_names",
     parse |-> "parse", message_id |-> "ts", attachments |-> "attachments", blocks |-> "blocks"]

\* C9: no key of the payload has a null value, an unset optional input leaves
\* its field absent, and at most one of icon_emoji / icon_url is present,
\* icon_emoji when both are given.
C9_NoNullFields ==
    PayloadReturned /\ ret.t = "return" =>
        /\ \A k \in DOMAIN ret.v.v : ret.v.v[k] # None
        /\ \A f \in (DOMAIN FieldOf) \ {"text", "attachments"} :
              args[f] = None => FieldOf[f] \notin DOMAIN ret.v.v
        /\ args.text = None => "text" \notin DOMAIN ret.v.v
        /\ args.text = None /\ args.attachments = None => "attachments" \notin DOMAIN ret.v.v
        /\ ~({"icon_emoji", "icon_url"} \subseteq DOMAIN ret.v.v)
        /\ args.icon_emoji # None => "icon_emoji" \in DOMAIN ret.v.v

\* C10: for attachments without 'fallback' the call completes and the
\* attachment gets 'fallback' equal to its escaped 'text'; every attachment
\* of the payload has a 'fallback'; the other fields are unchanged.
C10_FallbackFromText ==
    [][PayloadCalled /\ args.attachments # None =>
        /\ ret'.t = "return"
        /\ \A i \in 1..Len(args.attachments.v) :
              LET given == args.attachments.v[i].v
                  sent == CallerAttachment(ret'.v.v, args.attachments.v, i)
              IN  /\ "fallback" \notin DOMAIN given =>
                        /\ "fallback" \in DOMAIN sent
                        /\ sent["fallback"] = sent["text"]
                  /\ \A k \in (DOMAIN given) \ attachment_keys_to_escape : sent[k] = given[k]
        /\ \A i \in 1..Len(ret'.v.v["attachments"].v) :
              "fallback" \in DOMAIN ret'.v.v["attachments"].v[i].v]_vars

UploadUrls ==
    {<<"https://slack.com/api/files.getUploadURLExternal">>,
     <<"https://files.slack.com/upload/v1/abc">>,
     <<"https://slack.com/api/conversations.list">>,
     <<"https://slack.com/api/files.completeUploadExternal">>}

\* C1: in check mode no POST is ever issued, whatever the parameters.
C1_DryRunNoWrite == check_mode => NoPost

\* Equal as Python compares: the same value, or a JSON true / false against
\* the number 1 / 0.
SameValue(a, b) ==
    \/ a = b
    \/ a.t = "bool" /\ b.t = "int" /\ b.v = (IF a.v THEN 1 ELSE 0)
    \/ a.t = "int" /\ b.t = "bool" /\ a.v = (IF b.v THEN 1 ELSE 0)

FetchedEqualsRequested ==
    /\ SameValue(DictGet(message.v, "icon_url"), params.icon_url)
    /\ SameValue(DictGet(message.v, "icon_emoji"), params.icon_emoji)
    /\ SameValue(DictGet(message.v, "link_names"), params.link_names)
    /\ SameValue(DictGet(message.v, "color"), params.color)
    /\ SameValue(DictGet(message.v, "attachments"), params.attachments)
    /\ SameValue(DictGet(message.v, "blocks"), params.blocks)

\* C2: once the message of message_id is fetched, changed is false exactly
\* when its icon_url, icon_emoji, link_names, color, attachments and blocks
\* equal the parameters, whatever msg is; main then exits with changed=false
\* and the fetched ts and channel, and has issued no POST.  (The parameters
\* are read before a payload is built from them: after a POST changed is true.)
C2_EditDiff ==
    message # None =>
        /\ params.message_id # None
        /\ requests[1].method = "GET"
        /\ requests[1].url = <<"https://slack.com/api/conversations.history">>
        /\ Len(requests) = 1 => changed = PyBool(~FetchedEqualsRequested)
        /\ Len(requests) > 1 => changed = PyBool(TRUE)
        /\ Len(requests) = 1 /\ FetchedEqualsRequested =>
              /\ pc = "done"
              /\ outcome = Exit([changed |-> PyBool(FALSE), ts |-> message.v["ts"],
                                 channel |-> message.v["channel"]])
              /\ Len(requests) = 1

C2_Witness ==
    /\ message # None
    /\ ~check_mode
    /\ FetchedEqualsRequested
    /\ params.msg # message.v["text"]
    /\ pc = "done"
    /\ outcome.t = "exit_json"

\* C3: with upload_file present only the upload flow runs: the history
\* endpoint is never fetched, no payload is built and no message is posted,
\* whether the upload succeeds or fails.
C3_UploadExclusive ==
    Truthy(params.upload_file) =>
        /\ pc \in {"main", "upload_bytes", "get_channel_id", "complete_upload", "done"}
        /\ message = None
        /\ changed = None
        /\ \A i \in 1..Len(requests) : requests[i].url \in UploadUrls
        /\ outcome # None =>
              /\ outcome.t \in {"exit_json", "fail_json"}
              /\ DOMAIN outcome.v \subseteq {"msg", "changed", "upload_response"}

C3_Witness ==
    /\ Truthy(params.upload_file)
    /\ params.message_id # None
    /\ params.msg # None
    /\ pc = "done"
    /\ outcome.t = "exit_json"
    /\ Len(requests) >= 4

\* The channel the policy asks for.
ExpectedChannel(channel, policy) ==
    CASE policy = <<"a", "l", "w", "a", "y", "s">> -> <<"#">> \o channel
      [] policy = <<"n", "e", "v", "e", "r">> -> channel
      [] policy = <<"a", "u", "t", "o">> ->
            IF \/ Len(channel) >= 1 /\ channel[1] \in {"#", "@"}
               \/ Len(channel) >= 2 /\ <<channel[1], channel[2]>> \in
                      {<<"C", "0">>, <<"G", "F">>, <<"G", "0">>, <<"C", "P">>}
            THEN channel
            ELSE <<"#">> \o channel

\* C11: a non-null channel is put in the payload as prepend_hash says
\* ('always': '#' + channel, 'never': unchanged, 'auto': unchanged after one
\* of the prefixes #, @, C0, GF, G0, CP and '#' + channel otherwise); called
\* from main, where an unset prepend_hash is 'auto', the channel is never
\* dropped.
C11_ChannelPrefix ==
    /\ pc = "returned" /\ "channel" \in DOMAIN args /\ ret.t = "return"
          /\ args.channel # None /\ args.prepend_hash # None =>
          /\ "channel" \in DOMAIN ret.v.v
          /\ ret.v.v["channel"] = PyStr(ExpectedChannel(args.channel.v, args.prepend_hash.v))
    /\ pc = "returned_to_main" /\ ret.t = "return" /\ args.channel # None =>
          /\ "channel" \in DOMAIN ret.v.v
          /\ ret.v.v["channel"] =
                PyStr(ExpectedChannel(args.channel.v,
                                      IF args.prepend_hash = None THEN <<"a", "u", "t", "o">>
                                      ELSE args.prepend_hash.v))

C11_Witness ==
    /\ pc = "returned_to_main"
    /\ args.channel = PyStr(<<"C", "P", "1">>)
    /\ args.prepend_hash = None
    /\ ret.t = "return"
    /\ ret.v.v["channel"] = PyStr(<<"C", "P", "1">>)

\* sub occurs in s as a run of consecutive elements.
Contains(s, sub) ==
    \E i \in 0..(Len(s) - Len(sub)) : SubSeq(s, i + 1, i + Len(sub)) = sub

WebhookFailed ==
    /\ NotifyReturned
    /\ Len(requests) = 1
    /\ ~IsWebApiUrl(requests[1].url)
    /\ ret.t = "fail_json"

\* C12 as stated: when the POST to a webhook (new-style or legacy) is
\* answered with a status other than 200, the failure message names the
\* webhook template with '[obscured]' for the token and contains neither the
\* URL that was requested nor the (non-empty) token.
C12_Original ==
    WebhookFailed =>
        /\ Contains(ret.v.msg, <<"https://hooks.slack.com/services/", "[obscured]">>)
        /\ ~Contains(ret.v.msg, requests[1].url)
        /\ Len(args.token) > 0 => ~Contains(ret.v.msg, args.token)

\* C12 amended: the failure message is ' failed to send ', the JSON text
\* that was sent, ' to ', the new-style webhook template with '[obscured]'
\* for the token, ': ' and the error text of the HTTP layer, and nothing
\* else; what stands after ' to ' is not the URL that was requested.  The
\* JSON text that was sent is part of the message as it is.
C12_WebhookUrlObscured ==
    WebhookFailed =>
        /\ <<"https://hooks.slack.com/services/", "[obscured]">> # requests[1].url
        /\ \E info \in Infos :
              /\ info.status = requests[1].answer.status
              /\ ret.v.msg = <<" failed to send ">> \o requests[1].data
                                \o <<" to ", "https://hooks.slack.com/services/", "[obscured]", ": ">>
                                \o info.msg

\* A webhook POST was refused and the text that was sent holds the token.
C12_Witness ==
    /\ WebhookFailed
    /\ IsNewWebhookUrl(requests[1].url)
    /\ Len(args.token) > 2
    /\ args.text = args.token
    /\ Contains(requests[1].data, args.token)
    /\ Contains(ret.v.msg, <<"[obscured]">>)

HistoryUrl == <<"https://slack.com/api/conversations.history">>
ListUrl == <<"https://slack.com/api/conversations.list">>

\* The requests whose answer's body the module reads.
BodyIsRead(r) ==
    r.url \in {HistoryUrl, ListUrl,
               <<"https://slack.com/api/chat.postMessage">>,
               <<"https://slack.com/api/chat.update">>,
               <<"https://slack.com/api/files.getUploadURLExternal">>,
               <<"https://slack.com/api/files.completeUploadExternal">>}

EndedInFailure == pc = "done" /\ outcome.t \in {"fail_json", "raise"}

\* The checks main makes before any request: the colour, the file's existence.
ValidationFails ==
    \/ ~Truthy(params.upload_file) /\ params.color = PyStr(S_blue)
    \/ Truthy(params.upload_file) /\ file_state = "missing"

\* Only the channel-list endpoint is requested more than once.
NoEndpointTwice ==
    \A i \in 1..Len(requests) : \A j \in (i + 1)..Len(requests) :
        requests[i].url = requests[j].url => requests[i].url = ListUrl

\* C13 as stated: a request answered with a status other than 200, a body that
\* is not JSON or ok=false is the last request and the invocation ends in
\* failure; so does a failed validation, with no request; each endpoint is
\* requested at most once, the channel list at most once per cursor.
C13_Original ==
    /\ \A i \in 1..Len(requests) :
          (\/ requests[i].answer.status # 200
           \/ ~requests[i].answer.json
           \/ requests[i].answer.ok = PyBool(FALSE)) =>
              i = Len(requests) /\ EndedInFailure
    /\ ValidationFails /\ pc # "main" => EndedInFailure /\ requests = <<>>
    /\ NoEndpointTwice
    /\ \A i \in 1..Len(requests) : \A j \in (i + 1)..Len(requests) :
          requests[i].url = ListUrl /\ requests[j].url = ListUrl =>
              DictGet(requests[i].data, "cursor") # DictGet(requests[j].data, "cursor")

\* C13 amended: a request answered with a status other than 200, or a request
\* whose body the module reads (all but the webhook POST and the file-bytes
\* POST) answered with a body that is not JSON or with ok=false, is the last
\* request and the invocation ends in failure; so does a failed validation,
\* with no request; each endpoint is requested at most once, except the
\* channel list, which is requested once without cursor and once more for
\* each non-empty next cursor an answer brings, with that cursor.
C13_FailureIsTerminal ==
    /\ \A i \in 1..Len(requests) :
          (\/ requests[i].answer.status # 200
           \/ BodyIsRead(requests[i]) /\ ~requests[i].answer.json
           \/ BodyIsRead(requests[i]) /\ requests[i].answer.ok = PyBool(FALSE)) =>
              i = Len(requests) /\ EndedInFailure
    /\ ValidationFails /\ pc # "main" => EndedInFailure /\ requests = <<>>
    /\ NoEndpointTwice
    /\ \A i \in 1..Len(requests) :
          requests[i].url = ListUrl =>
              IF i > 1 /\ requests[i - 1].url = ListUrl
              THEN /\ Truthy(requests[i - 1].answer.next_cursor)
                   /\ DictGet(requests[i].data, "cursor") = requests[i - 1].answer.next_cursor
              ELSE /\ "cursor" \notin DOMAIN requests[i].data
                   /\ \A j \in 1..(i - 1) : requests[j].url # ListUrl

\* The server named the same next cursor twice: the second and the third
\* list request carry the same cursor, and the third is refused.
C13_Witness ==
    /\ Truthy(params.upload_file)
    /\ Len(requests) = 5
    /\ requests[3].url = ListUrl
    /\ requests[4].url = ListUrl
    /\ requests[5].url = ListUrl
    /\ DictGet(requests[4].data, "cursor") = DictGet(requests[5].data, "cursor")
    /\ requests[5].answer.ok = PyBool(FALSE)
    /\ EndedInFailure

GetUploadUrl == <<"https://slack.com/api/files.getUploadURLExternal">>
CompleteUrl == <<"https://slack.com/api/files.completeUploadExternal">>
BytesUrl == <<"https://files.slack.com/upload/v1/abc">>

AnsweredOk(r) == r.answer.status = 200 /\ r.answer.json /\ r.answer.ok = PyBool(TRUE)

UploadSucceeded ==
    /\ pc = "done"
    /\ outcome.t = "exit_json"
    /\ "upload_response" \in DOMAIN outcome.v

\* The identifiers of the channels named name that a page can list.
IdentifiersOf(name) ==
    {e.v["id"] : e \in {x \in ChannelEntries :
                            /\ x.t = "dict"
                            /\ "id" \in DOMAIN x.v
                            /\ DictGet(x.v, "name") = name}}

\* C14: the file-bytes POST follows a get-upload-URL request answered 200,
\* JSON and ok; the channel list is first requested right after a bytes POST
\* answered 200; the completion POST follows a page that resolved the channel
\* and carries its identifier; a missing file fails the upload with no
\* request; the upload succeeds only on a completion answered 200, JSON, ok.
C14_UploadOrder ==
    /\ \A i \in 1..Len(requests) :
          /\ requests[i].url = GetUploadUrl => i = 1
          /\ requests[i].url = BytesUrl =>
                i = 2 /\ requests[1].url = GetUploadUrl /\ AnsweredOk(requests[1])
          /\ requests[i].url = ListUrl =>
                /\ i >= 3
                /\ \/ requests[i - 1].url = BytesUrl /\ requests[i - 1].answer.status = 200
                   \/ requests[i - 1].url = ListUrl /\ AnsweredOk(requests[i - 1])
          /\ requests[i].url = CompleteUrl =>
                /\ i >= 4
                /\ requests[i - 1].url = ListUrl
                /\ AnsweredOk(requests[i - 1])
                /\ requests[i].data.channel_id \in IdentifiersOf(params.channel)
                /\ i = Len(requests)
    /\ Truthy(params.upload_file) /\ file_state = "missing" => requests = <<>>
    /\ Truthy(params.upload_file) /\ file_state = "missing" /\ pc # "main" => EndedInFailure
    /\ UploadSucceeded =>
          /\ Len(requests) >= 4
          /\ requests[Len(requests)].url = CompleteUrl
          /\ AnsweredOk(requests[Len(requests)])

(***************************************************************************)
(* get_channel_id called alone: the name asked for is in args, the pages   *)
(* the server sent are kept with the requests, the result is in ret.       *)
(***************************************************************************)
ChannelInputs == [token : {WebApiToken}, channel_name : {None, PyStr(<<"g">>), PyStr(<<"x">>)}]

\* data.get("channels", []) (line 512): the value of the page's 'channels',
\* whatever it is, and the empty list for a page that has none.
ChannelsOf(body) ==
    IF body.t = "dict" /\ "channels" \in DOMAIN body.v
    THEN body.v["channels"] ELSE PyList(<<>>)

InitChannel ==
    /\ pc = "get_channel_id_call"
    /\ args \in ChannelInputs
    /\ ret = None
    /\ outcome = None
    /\ requests = <<>>
    /\ MainIdle

\* Lines 493-521: one pass of the loop; the server sends at most MaxPages pages.
GetChannelIdPass ==
    /\ pc = "get_channel_id_call"
    /\ \E info \in Infos, body \in PageBodies :
          LET r == get_channel_id_page(args.token, args.channel_name, cursor, info, body) IN
          /\ r.result.t = "continue" => pages + 1 < MaxPages
          /\ requests' = requests \o
                [i \in 1..Len(r.requests) |->
                    [method |-> r.requests[i].method, url |-> r.requests[i].url,
                     headers |-> r.requests[i].headers, data |-> r.requests[i].data,
                     answer |-> AnswerOf(info, body), channels |-> ChannelsOf(body)]]
          /\ pages' = pages + 1
          /\ IF r.result.t = "continue"
             THEN /\ cursor' = r.result.v
                  /\ UNCHANGED <<pc, ret>>
             ELSE /\ ret' = r.result
                  /\ pc' = "returned"
                  /\ UNCHANGED cursor
    /\ UNCHANGED <<params, check_mode, file_state, outcome, changed, message, upload, args>>

NextChannel == GetChannelIdPass

\* The loop is sequential code and every fetch_url call comes back.
SpecChannel == InitChannel /\ [][NextChannel]_vars /\ WF_vars(NextChannel)

PageOk(r) == r.answer.status = 200 /\ r.answer.json /\ Truthy(r.answer.ok)

\* The channels a page lists: the elements of its 'channels' when that is a
\* list, none otherwise.
Listed(r) == IF r.channels.t = "list" THEN r.channels.v ELSE <<>>

\* Entry k of the page is a channel whose name equals the requested name.
IsNamed(r, k) ==
    /\ Listed(r)[k].t = "dict"
    /\ DictGet(Listed(r)[k].v, "name") = args.channel_name

NameMatches(r) == \E k \in 1..Len(Listed(r)) : IsNamed(r, k)

\* The page was good, had no channel of that name and named a next page.
GoesOn(r) == PageOk(r) /\ ~NameMatches(r) /\ Truthy(r.answer.next_cursor)

NotFound(result) ==
    /\ result.t = "fail_json"
    /\ result.v.msg[1] = "Channel named '"

ChannelLookupInv ==
    /\ Len(requests) = pages
    /\ pages <= MaxPages
    /\ \A i \in 1..Len(requests) :
          /\ requests[i].url = ListUrl
          /\ IF i = 1 THEN "cursor" \notin DOMAIN requests[i].data
             ELSE DictGet(requests[i].data, "cursor") = requests[i - 1].answer.next_cursor
          /\ i < Len(requests) => GoesOn(requests[i])
    /\ pc = "get_channel_id_call" =>
          /\ ret = None
          /\ \A i \in 1..Len(requests) : GoesOn(requests[i])
          /\ pages < MaxPages
    /\ pc = "returned" =>
          LET last == requests[Len(requests)] IN
          /\ Len(requests) >= 1
          /\ ret.t \in {"return", "fail_json", "raise"}
          /\ ret.t = "return" <=> PageOk(last) /\ NameMatches(last)
          /\ ret.t = "return" =>
                \E k \in 1..Len(Listed(last)) :
                    /\ IsNamed(last, k)
                    /\ \A j \in 1..(k - 1) : ~IsNamed(last, j)
                    /\ "id" \in DOMAIN Listed(last)[k].v
                    /\ ret.v = Listed(last)[k].v["id"]
          /\ NotFound(ret) <=>
                PageOk(last) /\ ~NameMatches(last) /\ ~Truthy(last.answer.next_cursor)

\* C15: get_channel_id asks for one page at a time with the cursor of the
\* previous page, returns the id of the first channel of that name and asks
\* for no page after it, fails with 'not found' exactly when a page without
\* next cursor is reached with no match so far, fails at once on a page that
\* is not 200, not JSON or not ok, and ends when the cursor chain ends.
C15_ChannelLookup == []ChannelLookupInv /\ <>(pc = "returned")

\* main ended and its last request was the POST of the message.
MessagePosted ==
    /\ pc = "done"
    /\ ~Truthy(params.upload_file)
    /\ Len(requests) >= 1
    /\ IsPost(requests[Len(requests)])

WebApiAccepted(r) == IsWebApiUrl(r.url) /\ AnsweredOk(r)

WebhookAccepted(r) == ~IsWebApiUrl(r.url) /\ r.answer.status = 200 /\ r.answer.ok = None

WebApiRefused(r) ==
    IsWebApiUrl(r.url) /\ r.answer.status = 200 /\ r.answer.json /\ r.answer.ok = PyBool(FALSE)

\* C16: when the message POST was accepted (WebAPI answer with ok=true, or a
\* webhook answered 200 with no 'ok'), main exits with changed=true in its
\* result; a WebAPI answer with ok=false makes main fail with the API's error.
C16_ChangedReported ==
    MessagePosted =>
        LET last == requests[Len(requests)] IN
        /\ WebApiAccepted(last) \/ WebhookAccepted(last) =>
              /\ outcome.t = "exit_json"
              /\ DictGet(outcome.v, "changed") = PyBool(TRUE)
        /\ WebApiRefused(last) =>
              /\ outcome.t = "fail_json"
              /\ "error" \in DOMAIN outcome.v

====
